---------------------------- MODULE Spec2Model ----------------------------
(***************************************************************************)
(* Model of the three batch text-analysis tools of the repository:         *)
(*   compute_statistics.py  (tool "stats")                                 *)
(*   convert_numbers.py     (tool "convert")                               *)
(*   word_count.py          (tool "words")                                 *)
(* A text is a tuple of one-character strings; a file is a tuple of raw    *)
(* lines.  Python floats that occur in the model are integral, so they are *)
(* kept as integers; a quotient is kept as the pair <<numerator, divisor>>.*)
(***************************************************************************)
EXTENDS Integers, Sequences, FiniteSets, TLC

VARIABLES
    \* ---- the run of one tool (specification Spec)
    tool,          \* which script runs: "stats", "convert" or "words"
    has_arg,       \* len(sys.argv) >= 2
    file_status,   \* what open(filepath) meets: "ok", "missing", "denied"
    file,          \* the input file: a tuple of raw lines
    pc,            \* position of main()
    exit_code,     \* -1 while running, else the process exit status
    line_no,       \* number of lines the scan loop has consumed
    numbers,       \* statistics / conversion: the valid records
    invalid_count, \* statistics / conversion: the invalid-line counter
    freq,          \* word count: the frequency table
    total_words,   \* word count: the valid-word total
    invalid_items, \* word count: the invalid-item counter
    tokens,        \* word count: tokens of the current line still to process
    stats,         \* statistics: <<>> or <<the computed aggregates>>
    agg_calls,     \* statistics: the aggregator functions called so far
    console,       \* everything printed, in order
    results_file,  \* the results file: [exists, text]
    open_count,    \* how often the results file was opened for writing
    \* ---- the pure functions applied to drawn inputs (SpecConvert, SpecMode)
    raw,           \* a raw line handed to strip() and parse_int_strict
    parsed,        \* <<>> or <<the result of parse_int_strict>>
    num,           \* <<>> or <<the integer handed to to_binary / to_hex>>
    shown,         \* <<>> or <<[n, b, h]>>: the conversions of num
    values,        \* the list handed to mode
    mode_out       \* <<>> or <<the result of mode(values)>>

runVars  == <<tool, has_arg, file_status, file, pc, exit_code, line_no,
              numbers, invalid_count, freq, total_words, invalid_items,
              tokens, stats, agg_calls, console, results_file, open_count>>
convVars == <<raw, parsed, num, shown>>
modeVars == <<values, mode_out>>
vars     == <<runVars, convVars, modeVars>>

\* ------------------------------------------------------------------ bounds
MaxLines   == 3    \* lines of an input file
MaxText    == 3    \* characters of a drawn raw line (SpecConvert)
MaxN       == 300  \* magnitude of a drawn integer (SpecConvert)
MaxModeLen == 5    \* length of a drawn value list (SpecMode)
MaxModeVal == 3    \* largest drawn value (SpecMode)

\* -------------------------------------------------------------- characters
\* The printable ASCII characters, in code point order from 32 (code 96, the
\* grave accent, is named: the lexer does not take it in a string).
PrintableAscii ==
    <<" ", "!", "\"", "#", "$", "%", "&", "'", "(", ")", "*", "+", ",", "-",
      ".", "/", "0", "1", "2", "3", "4", "5", "6", "7", "8", "9", ":", ";",
      "<", "=", ">", "?", "@", "A", "B", "C", "D", "E", "F", "G", "H", "I",
      "J", "K", "L", "M", "N", "O", "P", "Q", "R", "S", "T", "U", "V", "W",
      "X", "Y", "Z", "[", "\\", "]", "^", "_", "<grave>", "a", "b", "c", "d", "e",
      "f", "g", "h", "i", "j", "k", "l", "m", "n", "o", "p", "q", "r", "s",
      "t", "u", "v", "w", "x", "y", "z", "{", "|", "}", "~">>

\* ord(ch)
Ord(ch) ==
    IF ch = "\n" THEN 10
    ELSE IF ch = "\t" THEN 9
    ELSE 31 + (CHOOSE i \in 1..Len(PrintableAscii) : PrintableAscii[i] = ch)

\* chr(code), for a printable code point
Chr(code) == PrintableAscii[code - 31]

\* str.isspace for one character
IsSpace(ch) == ch \in {" ", "\n", "\t"}

\* str.isalnum for one (ASCII) character
IsAlnum(ch) ==
    LET c == Ord(ch)
    IN  \/ c \in 48..57
        \/ c \in 65..90
        \/ c \in 97..122

\* str.lower for one (ASCII) character
Lower(ch) == IF Ord(ch) \in 65..90 THEN Chr(Ord(ch) + 32) ELSE ch

RECURSIVE LStrip(_)
LStrip(s) ==
    IF s # <<>> /\ IsSpace(Head(s)) THEN LStrip(Tail(s)) ELSE s

RECURSIVE RStrip(_)
RStrip(s) ==
    IF s # <<>> /\ IsSpace(s[Len(s)])
    THEN RStrip(SubSeq(s, 1, Len(s) - 1))
    ELSE s

\* str.strip(): leading and trailing whitespace removed
Strip(s) == RStrip(LStrip(s))

\* All tuples over S of length at most n.
RECURSIVE SeqsUpTo(_, _)
SeqsUpTo(S, n) ==
    IF n = 0 THEN {<<>>}
    ELSE LET shorter == SeqsUpTo(S, n - 1)
         IN  shorter \cup {Append(s, x) : s \in shorter, x \in S}

\* ------------------------------------------------- convert_numbers.py: parse
HEX_DIGITS == <<"0", "1", "2", "3", "4", "5", "6", "7", "8", "9",
                "A", "B", "C", "D", "E", "F">>
BIN_DIGITS == <<"0", "1">>

\* The digit loop of parse_int_strict, from index idx with value so far.
\* "at" is the index of the character the loop returned at (0: ran through).
\* ParseDigits with the upper test (ch > "9") dropped.
RECURSIVE ParseDigitsNoUpper(_, _, _, _, _)
ParseDigitsNoUpper(text, idx, value, sign, line) ==
    IF idx > Len(text)
    THEN [ok |-> TRUE, value |-> sign * value, at |-> 0, printed |-> <<>>]
    ELSE IF Ord(text[idx]) < Ord("0")
         THEN [ok |-> FALSE, value |-> 0, at |-> idx,
               printed |-> <<<<"[ERROR] Line", line, "not an integer">>>>]
         ELSE ParseDigitsNoUpper(text, idx + 1,
                          value * 10 + (Ord(text[idx]) - Ord("0")), sign, line)

RECURSIVE ParseDigits(_, _, _, _, _)
ParseDigits(text, idx, value, sign, line) ==
    IF idx > Len(text)
    THEN [ok |-> TRUE, value |-> sign * value, at |-> 0, printed |-> <<>>]
    ELSE IF Ord(text[idx]) < Ord("0") \/ Ord(text[idx]) > Ord("9")
         THEN [ok |-> FALSE, value |-> 0, at |-> idx,
               printed |-> <<<<"[ERROR] Line", line, "not an integer">>>>]
         ELSE ParseDigits(text, idx + 1,
                          value * 10 + (Ord(text[idx]) - Ord("0")), sign, line)

parse_int_strict(text, line) ==
    IF text = <<>>
    THEN [ok |-> FALSE, value |-> 0, at |-> 0,
          printed |-> <<<<"[ERROR] Line", line, "empty/blank line">>>>]
    ELSE LET sign      == IF text[1] = "-" THEN -1 ELSE 1
             start_idx == IF text[1] \in {"+", "-"} THEN 1 ELSE 0
         IN  IF start_idx = Len(text)
             THEN [ok |-> FALSE, value |-> 0, at |-> 0,
                   printed |-> <<<<"[ERROR] Line", line,
                                   "sign without digits">>>>]
             ELSE ParseDigits(text, start_idx + 1, 0, sign, line)

\* ----------------------------------------------- convert_numbers.py: convert
Reverse(s) == [i \in 1..Len(s) |-> s[Len(s) + 1 - i]]

\* The while loop of convert_positive_to_base: result_chars after the loop.
RECURSIVE DivLoop(_, _, _, _)
DivLoop(value, base, digits, result_chars) ==
    IF value > 0
    THEN DivLoop(value \div base, base, digits,
                 Append(result_chars, digits[(value % base) + 1]))
    ELSE result_chars

\* convert_positive_to_base with result_chars.reverse() dropped.
convert_positive_to_base_noreverse(n, base, digits) ==
    IF n = 0 THEN <<"0">> ELSE DivLoop(n, base, digits, <<>>)

convert_positive_to_base(n, base, digits) ==
    IF n = 0 THEN <<"0">> ELSE Reverse(DivLoop(n, base, digits, <<>>))

to_binary(n) ==
    IF n < 0
    THEN <<"-">> \o convert_positive_to_base(-n, 2, BIN_DIGITS)
    ELSE convert_positive_to_base(n, 2, BIN_DIGITS)

to_hex(n) ==
    IF n < 0
    THEN <<"-">> \o convert_positive_to_base(-n, 16, HEX_DIGITS)
    ELSE convert_positive_to_base(n, 16, HEX_DIGITS)

\* -------------------------------------------- compute_statistics.py: numbers
\* sorted(values): ascending
RECURSIVE InsertAsc(_, _)
InsertAsc(sorted_vals, v) ==
    IF sorted_vals = <<>> THEN <<v>>
    ELSE IF v < Head(sorted_vals) THEN <<v>> \o sorted_vals
    ELSE <<Head(sorted_vals)>> \o InsertAsc(Tail(sorted_vals), v)

RECURSIVE SortAsc(_)
SortAsc(s) ==
    IF s = <<>> THEN <<>>
    ELSE InsertAsc(SortAsc(SubSeq(s, 1, Len(s) - 1)), s[Len(s)])

RECURSIVE SumSeq(_)
SumSeq(s) == IF s = <<>> THEN 0 ELSE Head(s) + SumSeq(Tail(s))

\* mean: total / len(values), as <<total, len(values)>>
mean(vals) == <<SumSeq(vals), Len(vals)>>

\* median, as a quotient
median(vals) ==
    LET sorted_vals == SortAsc(vals)
        n           == Len(sorted_vals)
        mid         == n \div 2
    IN  IF n % 2 = 1
        THEN <<sorted_vals[mid + 1], 1>>
        ELSE <<sorted_vals[mid] + sorted_vals[mid + 1], 2>>

\* The counting loop of mode: the dict freq as its items in insertion order.
RECURSIVE CountInto(_, _)
CountInto(items, v) ==
    IF items = <<>> THEN <<[value |-> v, count |-> 1]>>
    ELSE IF Head(items).value = v
         THEN <<[value |-> v, count |-> Head(items).count + 1]>> \o Tail(items)
         ELSE <<Head(items)>> \o CountInto(Tail(items), v)

RECURSIVE CountAll(_, _)
CountAll(vals, items) ==
    IF vals = <<>> THEN items
    ELSE CountAll(Tail(vals), CountInto(items, Head(vals)))

\* max(freq.values())
RECURSIVE MaxCount(_)
MaxCount(items) ==
    IF Len(items) = 1 THEN items[1].count
    ELSE LET rest == MaxCount(Tail(items))
         IN  IF Head(items).count > rest THEN Head(items).count ELSE rest

\* The collecting loop of mode: the values whose count is max_count.
RECURSIVE TiedValues(_, _)
TiedValues(items, max_count) ==
    IF items = <<>> THEN <<>>
    ELSE IF Head(items).count = max_count
         THEN <<Head(items).value>> \o TiedValues(Tail(items), max_count)
         ELSE TiedValues(Tail(items), max_count)

\* mode with modes.sort() dropped.
mode_unsorted(vals) ==
    LET items     == CountAll(vals, <<>>)
        max_count == MaxCount(items)
    IN  IF max_count <= 1
        THEN [modes |-> <<>>, mode_freq |-> 1]
        ELSE [modes |-> TiedValues(items, max_count), mode_freq |-> max_count]

mode(vals) ==
    LET items     == CountAll(vals, <<>>)
        max_count == MaxCount(items)
    IN  IF max_count <= 1
        THEN [modes |-> <<>>, mode_freq |-> 1]
        ELSE [modes |-> SortAsc(TiedValues(items, max_count)),
              mode_freq |-> max_count]

\* variance(values, avg) with avg = <<s, n>>: each diff is (value*n - s)/n
RECURSIVE SumSqDiff(_, _)
SumSqDiff(vals, avg) ==
    IF vals = <<>> THEN 0
    ELSE LET diff == Head(vals) * avg[2] - avg[1]
         IN  diff * diff + SumSqDiff(Tail(vals), avg)

variance(vals, avg) == <<SumSqDiff(vals, avg), avg[2] * avg[2] * Len(vals)>>

std_deviation(var) == <<"sqrt", var>>

\* ------------------------------------------ the pure functions on drawn input
\* The alphabet of the drawn raw lines: whitespace, the signs, the digits and
\* the characters next to the digits in code point order.
TextChars == {" ", "+", "-", "/", "0", "1", "9", ":"}

RunIdle ==
    /\ tool = "none" /\ has_arg = FALSE /\ file_status = "ok" /\ file = <<>>
    /\ pc = "exit" /\ exit_code = 0 /\ line_no = 0
    /\ numbers = <<>> /\ invalid_count = 0
    /\ freq = <<>> /\ total_words = 0 /\ invalid_items = 0 /\ tokens = <<>>
    /\ stats = <<>> /\ agg_calls = <<>> /\ console = <<>>
    /\ results_file = [exists |-> FALSE, text |-> <<>>] /\ open_count = 0

ConvIdle == raw = <<>> /\ parsed = <<>> /\ num = <<>> /\ shown = <<>>
ModeIdle == values = <<>> /\ mode_out = <<>>

InitConvert ==
    /\ RunIdle /\ ModeIdle
    /\ parsed = <<>> /\ shown = <<>>
    /\ \/ raw \in SeqsUpTo(TextChars, MaxText) /\ num = <<>>
       \/ raw = <<>> /\ num \in {<<n>> : n \in (-MaxN)..MaxN}

\* read_numbers on one line: strip, parse, keep the value when ok
ParseLine ==
    /\ parsed = <<>> /\ num = <<>>
    /\ LET r == parse_int_strict(Strip(raw), 1)
       IN  /\ parsed' = <<r>>
           /\ num' = IF r.ok THEN <<r.value>> ELSE <<>>
    /\ UNCHANGED <<raw, shown, runVars, modeVars>>

\* build_report on one number: b = to_binary(n), h = to_hex(n)
RenderNumber ==
    /\ num # <<>> /\ shown = <<>>
    /\ shown' = <<[n |-> num[1], b |-> to_binary(num[1]), h |-> to_hex(num[1])]>>
    /\ UNCHANGED <<raw, parsed, num, runVars, modeVars>>

NextConvert == ParseLine \/ RenderNumber
SpecConvert == InitConvert /\ [][NextConvert]_vars

InitMode ==
    /\ RunIdle /\ ConvIdle
    /\ values \in SeqsUpTo(1..MaxModeVal, MaxModeLen) \ {<<>>}
    /\ mode_out = <<>>

ComputeMode ==
    /\ mode_out = <<>>
    /\ mode_out' = <<mode(values)>>
    /\ UNCHANGED <<values, runVars, convVars>>

NextMode == ComputeMode
SpecMode == InitMode /\ [][NextMode]_vars

\* --------------------------------------------------- the run of one tool
\* One [ERROR] line printed by the scan.
Diag(n, reason) == <<<<"[ERROR] Line", n, reason, "Skipping.">>>>

\* write_results(output_text): open(filename, "w") and write
write_results(output_text) ==
    /\ results_file' = [exists |-> TRUE, text |-> output_text]
    /\ open_count' = open_count + 1

\* print(msg); sys.exit(1)
FatalExit(msg) ==
    /\ console' = Append(console, msg)
    /\ exit_code' = 1
    /\ pc' = "exit"
    /\ UNCHANGED <<convVars, modeVars, tool, has_arg, file_status, file, line_no, numbers,
                   invalid_count, freq, total_words, invalid_items, tokens,
                   stats, agg_calls, results_file, open_count>>

\* The valid path of a step that changes only pc.
Goto(label) ==
    /\ pc' = label
    /\ UNCHANGED <<convVars, modeVars, tool, has_arg, file_status, file, exit_code, line_no,
                   numbers, invalid_count, freq, total_words, invalid_items,
                   tokens, stats, agg_calls, console, results_file,
                   open_count>>

\* Where the for loop over the file stands once n lines are consumed.
LoopPc(n) == IF n = Len(file) THEN "scanned" ELSE "scan"

\* ---- compute_statistics.py
\* The raw lines a statistics input file is drawn from.
StatsLines ==
    { <<"\n">>,
      <<"1", "\n">>,
      <<"1", ".", "0", "\n">>,
      <<" ", "2", "\n">>,
      <<"a", "b", "c", "\n">>,
      <<"i", "n", "f", "\n">>,
      <<"n", "a", "n", "\n">> }

\* float(line) and math.isfinite on the stripped lines of StatsLines:
\* ok = no ValueError.
PyFloat(line) ==
    CASE line = <<"1">>           -> [ok |-> TRUE,  finite |-> TRUE,  value |-> 1]
      [] line = <<"1", ".", "0">> -> [ok |-> TRUE,  finite |-> TRUE,  value |-> 1]
      [] line = <<"2">>           -> [ok |-> TRUE,  finite |-> TRUE,  value |-> 2]
      [] line = <<"a", "b", "c">> -> [ok |-> FALSE, finite |-> FALSE, value |-> 0]
      [] line = <<"i", "n", "f">> -> [ok |-> TRUE,  finite |-> FALSE, value |-> 0]
      [] line = <<"n", "a", "n">> -> [ok |-> TRUE,  finite |-> FALSE, value |-> 0]

\* The body of the for loop of read_numbers_from_file on one raw line:
\* the accumulators after it and what it printed.
\* stats_loop_body with the non-finite branch not counting the line.
stats_loop_body_nonfinite_uncounted(nums, inv, raw_line, n) ==
    LET line == Strip(raw_line)
    IN  IF line = <<>>
        THEN [numbers |-> nums, invalid_count |-> inv + 1,
              printed |-> <<Diag(n, "empty/blank line")>>]
        ELSE LET f == PyFloat(line)
             IN  IF ~f.ok
                 THEN [numbers |-> nums, invalid_count |-> inv + 1,
                       printed |-> <<Diag(n, "not a number")>>]
                 ELSE IF f.finite
                 THEN [numbers |-> Append(nums, f.value), invalid_count |-> inv,
                       printed |-> <<>>]
                 ELSE [numbers |-> nums, invalid_count |-> inv,
                       printed |-> <<Diag(n, "non-finite value")>>]

stats_loop_body(nums, inv, raw_line, n) ==
    LET line == Strip(raw_line)
    IN  IF line = <<>>
        THEN [numbers |-> nums, invalid_count |-> inv + 1,
              printed |-> <<Diag(n, "empty/blank line")>>]
        ELSE LET f == PyFloat(line)
             IN  IF ~f.ok
                 THEN [numbers |-> nums, invalid_count |-> inv + 1,
                       printed |-> <<Diag(n, "not a number")>>]
                 ELSE IF f.finite
                 THEN [numbers |-> Append(nums, f.value), invalid_count |-> inv,
                       printed |-> <<>>]
                 ELSE [numbers |-> nums, invalid_count |-> inv + 1,
                       printed |-> <<Diag(n, "non-finite value")>>]

stats_format_results(result) ==
    << <<"=== Statistical Results ===">>,
       <<"Valid data count:", result.count>>,
       <<"Invalid data count:", result.invalid_count>>,
       <<"">>,
       <<"Mean:", result.avg>>,
       <<"Median:", result.med>>,
       IF result.modes = <<>>
       THEN <<"Mode: No mode (all frequencies are 1).">>
       ELSE <<"Mode(s) (frequency", result.mode_freq, result.modes>>,
       <<"Variance:", result.var>>,
       <<"Standard deviation:", result.std>>,
       <<"">>,
       <<"Elapsed time (s):">> >>

\* The report of main when no line was valid.
StatsNoDataReport(inv) ==
    << <<"=== Statistical Results ===">>,
       <<"No valid data to process.">>,
       <<"Invalid data count:", inv>>,
       <<"Elapsed time (s):">> >>

stats_main ==
    /\ tool = "stats" /\ pc = "main"
    /\ IF ~has_arg
       THEN FatalExit(<<<<"[ERROR] missing parameter">>>>)
       ELSE Goto("open")

\* stats_open with a failed open taken for an empty file.
stats_open_swallows_errors ==
    /\ tool = "stats" /\ pc = "open"
    /\ Goto(LoopPc(0))

stats_open ==
    /\ tool = "stats" /\ pc = "open"
    /\ CASE file_status = "missing" ->
                FatalExit(<<<<"[ERROR] File not found:">>>>)
         [] file_status = "denied" ->
                FatalExit(<<<<"[ERROR] No permissions to read the file:">>>>)
         [] file_status = "ok" -> Goto(LoopPc(0))

stats_scan_line ==
    /\ tool = "stats" /\ pc = "scan" /\ line_no < Len(file)
    /\ LET r == stats_loop_body(numbers, invalid_count,
                                file[line_no + 1], line_no + 1)
       IN  /\ numbers' = r.numbers
           /\ invalid_count' = r.invalid_count
           /\ console' = console \o r.printed
    /\ line_no' = line_no + 1
    /\ pc' = LoopPc(line_no + 1)
    /\ UNCHANGED <<convVars, modeVars, tool, has_arg, file_status, file, exit_code, freq,
                   total_words, invalid_items, tokens, stats, agg_calls,
                   results_file, open_count>>

\* stats_no_data with write_results(output) left out.
stats_no_data_nowrite ==
    /\ tool = "stats" /\ pc = "scanned" /\ numbers = <<>>
    /\ console' = Append(console, StatsNoDataReport(invalid_count))
    /\ exit_code' = 0
    /\ pc' = "exit"
    /\ UNCHANGED <<convVars, modeVars, tool, has_arg, file_status, file,
                   line_no, numbers, invalid_count, freq, total_words,
                   invalid_items, tokens, stats, agg_calls, results_file,
                   open_count>>

\* main, "if not numbers": print, write_results, sys.exit(0)
stats_no_data ==
    /\ tool = "stats" /\ pc = "scanned" /\ numbers = <<>>
    /\ LET output == StatsNoDataReport(invalid_count)
       IN  /\ console' = Append(console, output)
           /\ write_results(output)
    /\ exit_code' = 0
    /\ pc' = "exit"
    /\ UNCHANGED <<convVars, modeVars, tool, has_arg, file_status, file, line_no, numbers,
                   invalid_count, freq, total_words, invalid_items, tokens,
                   stats, agg_calls>>

\* main: avg, med, modes, var, std
stats_aggregate ==
    /\ tool = "stats" /\ pc = "scanned" /\ numbers # <<>>
    /\ LET avg == mean(numbers)
           m   == mode(numbers)
           var == variance(numbers, avg)
       IN  stats' = <<[count |-> Len(numbers), invalid_count |-> invalid_count,
                       avg |-> avg, med |-> median(numbers),
                       modes |-> m.modes, mode_freq |-> m.mode_freq,
                       var |-> var, std |-> std_deviation(var)]>>
    /\ agg_calls' = <<"mean", "median", "mode", "variance", "std_deviation">>
    /\ pc' = "report"
    /\ UNCHANGED <<convVars, modeVars, tool, has_arg, file_status, file, exit_code, line_no,
                   numbers, invalid_count, freq, total_words, invalid_items,
                   tokens, console, results_file, open_count>>

\* main: format_results, print, write_results, return
stats_report ==
    /\ tool = "stats" /\ pc = "report"
    /\ LET output == stats_format_results(stats[1])
       IN  /\ console' = Append(console, output)
           /\ write_results(output)
    /\ exit_code' = 0
    /\ pc' = "exit"
    /\ UNCHANGED <<convVars, modeVars, tool, has_arg, file_status, file, line_no, numbers,
                   invalid_count, freq, total_words, invalid_items, tokens,
                   stats, agg_calls>>

\* ---- convert_numbers.py
\* The raw lines a conversion input file is drawn from.
ConvLines ==
    { <<"\n">>,
      <<"-", "\n">>,
      <<"1", "2", "\n">>,
      <<"-", "0", "\n">>,
      <<"+", "7", "\n">>,
      <<"1", ".", "5", "\n">>,
      <<" ", "-", "2", "5", "5", " ", "\n">> }

\* main's console_limit
CONSOLE_LIMIT == 15

\* conv_loop_body with the value appended whether or not the parse succeeded.
conv_loop_body_appends_always(nums, inv, raw_line, n) ==
    LET line == Strip(raw_line)
        r    == parse_int_strict(line, n)
    IN  [numbers |-> Append(nums, r.value),
         invalid_count |-> IF r.ok THEN inv ELSE inv + 1,
         printed |-> r.printed]

\* The body of the for loop of read_numbers on one raw line.
conv_loop_body(nums, inv, raw_line, n) ==
    LET line == Strip(raw_line)
        r    == parse_int_strict(line, n)
    IN  IF r.ok
        THEN [numbers |-> Append(nums, r.value), invalid_count |-> inv,
              printed |-> r.printed]
        ELSE [numbers |-> nums, invalid_count |-> inv + 1,
              printed |-> r.printed]

\* build_report; console_limit is <<>> (None) or <<limit>>
build_report(nums, inv, console_limit) ==
    LET lim    == IF console_limit = <<>> \/ console_limit[1] > Len(nums)
                  THEN Len(nums) ELSE console_limit[1]
        listed == SubSeq(nums, 1, lim)
    IN  << <<"=== Conversion Results (Decimal -> Binary / Hex) ===">>,
           <<"Valid numbers:", Len(nums)>>,
           <<"Invalid lines skipped:", inv>>,
           <<"">>,
           <<"Decimal -> Binary -> Hex">>,
           <<"------------------------">> >>
        \o [i \in 1..Len(listed) |->
               <<listed[i], "->", to_binary(listed[i]), "->", to_hex(listed[i])>>]
        \o (IF console_limit # <<>> /\ Len(nums) > console_limit[1]
            THEN << <<"">>,
                    <<"... showing first", console_limit[1], "of", Len(nums)>> >>
            ELSE <<>>)
        \o << <<"">>, <<"Elapsed time (s):">> >>

conv_main ==
    /\ tool = "convert" /\ pc = "main"
    /\ IF ~has_arg
       THEN FatalExit(<<<<"Usage: python3 convertNumbers.py fileWithData.txt">>>>)
       ELSE Goto("open")

conv_open ==
    /\ tool = "convert" /\ pc = "open"
    /\ CASE file_status = "missing" ->
                FatalExit(<<<<"[ERROR] File not found:">>>>)
         [] file_status = "denied" ->
                FatalExit(<<<<"[ERROR] Permission denied:">>>>)
         [] file_status = "ok" -> Goto(LoopPc(0))

conv_scan_line ==
    /\ tool = "convert" /\ pc = "scan" /\ line_no < Len(file)
    /\ LET r == conv_loop_body(numbers, invalid_count,
                               file[line_no + 1], line_no + 1)
       IN  /\ numbers' = r.numbers
           /\ invalid_count' = r.invalid_count
           /\ console' = console \o r.printed
    /\ line_no' = line_no + 1
    /\ pc' = LoopPc(line_no + 1)
    /\ UNCHANGED <<convVars, modeVars, tool, has_arg, file_status, file, exit_code, freq,
                   total_words, invalid_items, tokens, stats, agg_calls,
                   results_file, open_count>>

\* main: report_full, report_console, print, write_results, return
conv_report ==
    /\ tool = "convert" /\ pc = "scanned"
    /\ LET report_full    == build_report(numbers, invalid_count, <<>>)
           report_console == build_report(numbers, invalid_count,
                                          <<CONSOLE_LIMIT>>)
       IN  /\ console' = Append(console, report_console)
           /\ write_results(report_full)
    /\ exit_code' = 0
    /\ pc' = "exit"
    /\ UNCHANGED <<convVars, modeVars, tool, has_arg, file_status, file, line_no, numbers,
                   invalid_count, freq, total_words, invalid_items, tokens,
                   stats, agg_calls>>

\* ---- word_count.py
\* The raw lines a word count input file is drawn from.
WordLines ==
    { <<"\n">>,
      <<" ", "\n">>,
      <<"H", "i", ",", " ", "h", "i", "\n">>,
      <<".", ".", ".", "\n">>,
      <<"b", " ", "!", " ", "A", "\n">>,
      <<"i", "t", "'", "s", " ", "a", "\n">> }

\* str.split(): the maximal runs of non-whitespace characters
RECURSIVE SplitFrom(_, _, _)
SplitFrom(s, cur, acc) ==
    IF s = <<>>
    THEN IF cur = <<>> THEN acc ELSE Append(acc, cur)
    ELSE IF IsSpace(Head(s))
         THEN SplitFrom(Tail(s), <<>>,
                        IF cur = <<>> THEN acc ELSE Append(acc, cur))
         ELSE SplitFrom(Tail(s), Append(cur, Head(s)), acc)

Split(s) == SplitFrom(s, <<>>, <<>>)

RECURSIVE normalize_word(_)
normalize_word(token) ==
    IF token = <<>> THEN <<>>
    ELSE IF IsAlnum(Head(token)) \/ Head(token) = "'"
         THEN <<Lower(Head(token))>> \o normalize_word(Tail(token))
         ELSE normalize_word(Tail(token))

\* freq[word] = freq.get(word, 0) + 1, the dict as its items in insertion order
RECURSIVE FreqIncrement(_, _)
FreqIncrement(items, word) ==
    IF items = <<>> THEN <<[word |-> word, count |-> 1]>>
    ELSE IF Head(items).word = word
         THEN <<[word |-> word, count |-> Head(items).count + 1]>>
              \o Tail(items)
         ELSE <<Head(items)>> \o FreqIncrement(Tail(items), word)

\* The blank-line test of the for loop of read_and_count_words on one raw line.
wc_line_body(inv, raw_line, n) ==
    LET line == Strip(raw_line)
    IN  IF line = <<>>
        THEN [invalid_items |-> inv + 1, tokens |-> <<>>,
              printed |-> <<Diag(n, "empty/blank line")>>]
        ELSE [invalid_items |-> inv, tokens |-> Split(line), printed |-> <<>>]

\* wc_token_body with an empty word skipped but not counted.
wc_token_body_uncounted(table, total, inv, token, n) ==
    LET word == normalize_word(token)
    IN  IF word = <<>>
        THEN [freq |-> table, total_words |-> total, invalid_items |-> inv,
              printed |-> <<Diag(n, "invalid token")>>]
        ELSE [freq |-> FreqIncrement(table, word), total_words |-> total + 1,
              invalid_items |-> inv, printed |-> <<>>]

\* wc_token_body with the "if not word" test left out.
wc_token_body_noskip(table, total, inv, token, n) ==
    LET word == normalize_word(token)
    IN  [freq |-> FreqIncrement(table, word), total_words |-> total + 1,
         invalid_items |-> inv, printed |-> <<>>]

\* The body of the inner loop of read_and_count_words on one token.
wc_token_body(table, total, inv, token, n) ==
    LET word == normalize_word(token)
    IN  IF word = <<>>
        THEN [freq |-> table, total_words |-> total, invalid_items |-> inv + 1,
              printed |-> <<Diag(n, "invalid token")>>]
        ELSE [freq |-> FreqIncrement(table, word), total_words |-> total + 1,
              invalid_items |-> inv, printed |-> <<>>]

\* Python's order of two strings: by code point, a proper prefix first.
RECURSIVE StrLess(_, _)
StrLess(a, b) ==
    IF b = <<>> THEN FALSE
    ELSE IF a = <<>> THEN TRUE
    ELSE IF Head(a) = Head(b) THEN StrLess(Tail(a), Tail(b))
    ELSE Ord(Head(a)) < Ord(Head(b))

\* The sort key (-count, word) of format_results.
KeyLess(x, y) ==
    \/ x.count > y.count
    \/ x.count = y.count /\ StrLess(x.word, y.word)

RECURSIVE InsertByKey(_, _)
InsertByKey(sorted_items, x) ==
    IF sorted_items = <<>> THEN <<x>>
    ELSE IF KeyLess(x, Head(sorted_items)) THEN <<x>> \o sorted_items
    ELSE <<Head(sorted_items)>> \o InsertByKey(Tail(sorted_items), x)

RECURSIVE SortItems(_)
SortItems(items) ==
    IF items = <<>> THEN <<>>
    ELSE InsertByKey(SortItems(SubSeq(items, 1, Len(items) - 1)),
                     items[Len(items)])

wc_format_results(table, total, distinct_words, inv) ==
    LET items == SortItems(table)
    IN  << <<"=== Word Count Results ===">>,
           <<"Total valid words counted:", total>>,
           <<"Distinct words:", distinct_words>>,
           <<"Invalid items skipped:", inv>>,
           <<"">>,
           <<"Word -> Frequency">>,
           <<"-----------------">> >>
        \o [i \in 1..Len(items) |-> <<items[i].word, "->", items[i].count>>]
        \o << <<"">>, <<"Elapsed time (s):">> >>

wc_main ==
    /\ tool = "words" /\ pc = "main"
    /\ IF ~has_arg
       THEN FatalExit(<<<<"Usage: python3 wordCount.py fileWithData.txt">>>>)
       ELSE Goto("open")

wc_open ==
    /\ tool = "words" /\ pc = "open"
    /\ CASE file_status = "missing" ->
                FatalExit(<<<<"[ERROR] File not found:">>>>)
         [] file_status = "denied" ->
                FatalExit(<<<<"[ERROR] Permission denied:">>>>)
         [] file_status = "ok" -> Goto(LoopPc(0))

\* The outer loop takes the next line (the inner loop has used up the last).
wc_scan_line ==
    /\ tool = "words" /\ pc = "scan" /\ tokens = <<>> /\ line_no < Len(file)
    /\ LET r == wc_line_body(invalid_items, file[line_no + 1], line_no + 1)
       IN  /\ invalid_items' = r.invalid_items
           /\ tokens' = r.tokens
           /\ console' = console \o r.printed
           /\ pc' = IF r.tokens = <<>> THEN LoopPc(line_no + 1) ELSE "scan"
    /\ line_no' = line_no + 1
    /\ UNCHANGED <<convVars, modeVars, tool, has_arg, file_status, file, exit_code, numbers,
                   invalid_count, freq, total_words, stats, agg_calls,
                   results_file, open_count>>

\* The inner loop takes the next token of the current line.
wc_scan_token ==
    /\ tool = "words" /\ pc = "scan" /\ tokens # <<>>
    /\ LET r == wc_token_body(freq, total_words, invalid_items,
                              Head(tokens), line_no)
       IN  /\ freq' = r.freq
           /\ total_words' = r.total_words
           /\ invalid_items' = r.invalid_items
           /\ console' = console \o r.printed
    /\ tokens' = Tail(tokens)
    /\ pc' = IF Tail(tokens) = <<>> THEN LoopPc(line_no) ELSE "scan"
    /\ UNCHANGED <<convVars, modeVars, tool, has_arg, file_status, file, exit_code, line_no,
                   numbers, invalid_count, stats, agg_calls, results_file,
                   open_count>>

\* main: format_results, print(type(output)), write_results, return
wc_report ==
    /\ tool = "words" /\ pc = "scanned"
    /\ LET output == wc_format_results(freq, total_words, Len(freq),
                                       invalid_items)
       IN  /\ console' = Append(console, <<<<"<class 'str'>">>>>)
           /\ write_results(output)
    /\ exit_code' = 0
    /\ pc' = "exit"
    /\ UNCHANGED <<convVars, modeVars, tool, has_arg, file_status, file, line_no, numbers,
                   invalid_count, freq, total_words, invalid_items, tokens,
                   stats, agg_calls>>

\* ---- the runs
\* What the results file holds before the run: nothing, or an earlier report.
PriorResults ==
    { [exists |-> FALSE, text |-> <<>>],
      [exists |-> TRUE,  text |-> <<<<"(an earlier report)">>>>] }

LinesOf(t) ==
    CASE t = "stats"   -> StatsLines
      [] t = "convert" -> ConvLines
      [] t = "words"   -> WordLines

Init ==
    /\ ConvIdle /\ ModeIdle
    /\ tool \in {"stats", "convert", "words"}
    /\ has_arg \in BOOLEAN
    /\ file_status \in {"ok", "missing", "denied"}
    /\ file \in SeqsUpTo(LinesOf(tool), MaxLines)
    /\ has_arg = FALSE => file_status = "ok"
    /\ (has_arg = FALSE \/ file_status # "ok") => file = <<>>
    /\ pc = "main" /\ exit_code = -1 /\ line_no = 0
    /\ numbers = <<>> /\ invalid_count = 0
    /\ freq = <<>> /\ total_words = 0 /\ invalid_items = 0 /\ tokens = <<>>
    /\ stats = <<>> /\ agg_calls = <<>> /\ console = <<>>
    /\ results_file \in PriorResults /\ open_count = 0

Next ==
    \/ stats_main \/ stats_open \/ stats_scan_line
    \/ stats_no_data \/ stats_aggregate \/ stats_report
    \/ conv_main \/ conv_open \/ conv_scan_line \/ conv_report
    \/ wc_main \/ wc_open \/ wc_scan_line \/ wc_scan_token \/ wc_report

Spec == Init /\ [][Next]_vars

\* ------------------------------------------------------------------- claims
RECURSIVE Pow(_, _)
Pow(b, k) == IF k = 0 THEN 1 ELSE b * Pow(b, k - 1)

\* The value of the digit string s read in the given base with the digit
\* table digits (most significant digit first).
DigitIndex(ch, digits) == (CHOOSE i \in 1..Len(digits) : digits[i] = ch) - 1
RECURSIVE PlaceValue(_, _, _)
PlaceValue(s, base, digits) ==
    IF s = <<>> THEN 0
    ELSE DigitIndex(Head(s), digits) * Pow(base, Len(s) - 1)
         + PlaceValue(Tail(s), base, digits)

Elems(s) == {s[i] : i \in DOMAIN s}
Unsigned(s) == IF s # <<>> /\ s[1] \in {"+", "-"} THEN Tail(s) ELSE s
DecimalDigits == <<"0", "1", "2", "3", "4", "5", "6", "7", "8", "9">>

\* int(s, base) of a literal with an optional leading '-'
ReParse(s, base, digits) ==
    (IF s[1] = "-" THEN -1 ELSE 1) * PlaceValue(Unsigned(s), base, digits)

WellRendered(s, n, base, digits) ==
    /\ Unsigned(s) # <<>>
    /\ Elems(Unsigned(s)) \subseteq Elems(digits)
    /\ ReParse(s, base, digits) = n
    /\ (s[1] = "-") <=> (n < 0)
    /\ Unsigned(s)[1] = "0" => s = <<"0">>
    /\ n = 0 => s = <<"0">>

\* C7: for every integer n, to_binary(n) and to_hex(n) are unprefixed digit
\* strings over "01" / "0123456789ABCDEF" that re-parse to n, start with '-'
\* exactly when n < 0, have no leading zero digit unless they are "0", and
\* render zero (a parsed "-0" or "+0" too) as "0" without a sign.
C7_RoundTrip ==
    shown # <<>> =>
        /\ shown[1].n = num[1]
        /\ WellRendered(shown[1].b, shown[1].n, 2, BIN_DIGITS)
        /\ WellRendered(shown[1].h, shown[1].n, 16, HEX_DIGITS)

C7_Witness ==
    /\ raw = <<"-", "0">>
    /\ shown = <<[n |-> 0, b |-> <<"0">>, h |-> <<"0">>]>>

Occurrences(vals, v) == Cardinality({i \in DOMAIN vals : vals[i] = v})
HighestFrequency(vals) ==
    CHOOSE c \in 1..Len(vals) :
        /\ \E v \in Elems(vals) : Occurrences(vals, v) = c
        /\ \A v \in Elems(vals) : Occurrences(vals, v) <= c

\* C8: for a non-empty list, mode returns no modes when the highest frequency
\* is at most 1; otherwise exactly the distinct values that occur with the
\* highest frequency, each once, ascending, together with that frequency.
C8_Mode ==
    mode_out # <<>> =>
        LET r  == mode_out[1]
            hi == HighestFrequency(values)
        IN  IF hi <= 1
            THEN r.modes = <<>>
            ELSE /\ \A i \in 1..(Len(r.modes) - 1) : r.modes[i] < r.modes[i + 1]
                 /\ Elems(r.modes) =
                        {v \in Elems(values) : Occurrences(values, v) = hi}
                 /\ r.mode_freq = hi

C8_Witness ==
    /\ values = <<1, 1, 2, 2, 3>>
    /\ mode_out = <<[modes |-> <<1, 2>>, mode_freq |-> 2]>>

\* The integer grammar: an optional single sign, then one or more of '0'-'9'.
IsInteger(text) ==
    /\ Unsigned(text) # <<>>
    /\ Elems(Unsigned(text)) \subseteq Elems(DecimalDigits)

\* The index in text of the first character after the sign that is no digit.
FirstOffender(text) ==
    CHOOSE i \in 1..Len(text) :
        /\ i > Len(text) - Len(Unsigned(text))
        /\ text[i] \notin Elems(DecimalDigits)
        /\ \A j \in 1..(i - 1) :
              j > Len(text) - Len(Unsigned(text))
                  => text[j] \in Elems(DecimalDigits)

\* C9: parse_int_strict accepts a stripped line exactly when it is an optional
\* single '+' or '-' followed by one or more ASCII digits; it then returns the
\* signed decimal value; otherwise it returns failure with value 0, having
\* stopped at the first character that is no digit.
C9_ParseStrict ==
    parsed # <<>> =>
        LET text == Strip(raw)
            r    == parsed[1]
        IN  /\ r.ok <=> IsInteger(text)
            /\ r.ok => r.value = ReParse(text, 10, DecimalDigits)
            /\ ~r.ok => r.value = 0
            /\ (~r.ok /\ Unsigned(text) # <<>>) => r.at = FirstOffender(text)

C9_Witness ==
    /\ raw = <<"-", "1", "9">>
    /\ parsed # <<>> /\ parsed[1].ok /\ parsed[1].value = -19

\* ---- claims about the runs
ScanDone == pc \in {"scanned", "report"} \/ exit_code = 0
SumLens(f) == SumSeq([i \in DOMAIN f |-> Len(Split(Strip(f[i])))])

\* C1: in statistics and conversion mode, after every line of the scan the
\* valid records plus invalid_count equal the lines scanned so far, and after
\* the scan they equal the number of lines of the file.
C1_CountsAddUp ==
    tool \in {"stats", "convert"} =>
        /\ Len(numbers) + invalid_count = line_no
        /\ ScanDone => Len(numbers) + invalid_count = Len(file)

C1_Witness ==
    /\ tool = "stats" /\ pc = "exit" /\ exit_code = 0
    /\ Len(file) = 3 /\ Len(numbers) = 2 /\ invalid_count = 1

\* Tokens the inner loop has processed, and blank lines the outer loop has met.
TokensScanned == SumLens(SubSeq(file, 1, line_no)) - Len(tokens)
BlankLinesScanned ==
    Cardinality({i \in 1..line_no : Strip(file[i]) = <<>>})

\* C2 (as stated): in word count mode the valid-word total plus the
\* invalid-item total equals the number of whitespace-delimited tokens
\* scanned, blank lines in the input or not.
C2_TokensAddUp ==
    tool = "words" => total_words + invalid_items = TokensScanned

\* C2 (amended): in word count mode the valid-word total plus the
\* invalid-item total equals the number of tokens scanned plus the number of
\* blank lines scanned.
C2_TokensAndBlankLinesAddUp ==
    tool = "words" =>
        total_words + invalid_items = TokensScanned + BlankLinesScanned

C2_Witness ==
    /\ tool = "words" /\ pc = "exit" /\ exit_code = 0
    /\ BlankLinesScanned = 1 /\ total_words = 2 /\ invalid_items = 2

Fatal == ~has_arg \/ file_status # "ok"

\* C3: the results file is opened for writing at most once per run, and only
\* once the scan has run to completion; a run that meets a fatal error (no
\* argument, file not found, permission denied) ends with exit status 1 and
\* never creates or overwrites the results file.
C3_WriteOnceAfterScan ==
    /\ [](/\ open_count <= 1
          /\ open_count = 1 => (~Fatal /\ line_no = Len(file) /\ tokens = <<>>)
          /\ (Fatal /\ pc = "exit") => exit_code = 1
          /\ exit_code = 1 => (Fatal /\ open_count = 0)
          /\ open_count = 0 => results_file \in PriorResults)
    /\ [][(results_file' # results_file \/ open_count' # open_count) =>
             /\ pc \in {"scanned", "report"}
             /\ line_no = Len(file) /\ tokens = <<>>
             /\ open_count' = open_count + 1]_vars

C3_Witness ==
    /\ has_arg /\ file_status = "missing" /\ pc = "exit" /\ exit_code = 1
    /\ open_count = 0
    /\ results_file = [exists |-> TRUE, text |-> <<<<"(an earlier report)">>>>]

\* C4: in statistics and word count mode, on every successful run the final
\* report printed to the console is the text written to the results file.
C4_ConsoleMirrorsFile ==
    (tool \in {"stats", "words"} /\ pc = "exit" /\ exit_code = 0) =>
        console[Len(console)] = results_file.text

\* What the tools keep of the lines / tokens of a file, stated on the input.
KeptChar(ch) == IsAlnum(ch) \/ ch = "'"
Normalized(token) ==
    LET kept == SelectSeq(token, KeptChar)
    IN  [i \in DOMAIN kept |-> Lower(kept[i])]

ValidLine(t, raw_line) ==
    LET line == Strip(raw_line)
    IN  IF t = "stats"
        THEN line # <<>> /\ PyFloat(line).ok /\ PyFloat(line).finite
        ELSE IsInteger(line)

LineValue(t, raw_line) ==
    IF t = "stats" THEN PyFloat(Strip(raw_line)).value
    ELSE ReParse(Strip(raw_line), 10, DecimalDigits)

RECURSIVE ValidValues(_, _)
ValidValues(t, f) ==
    IF f = <<>> THEN <<>>
    ELSE (IF ValidLine(t, Head(f)) THEN <<LineValue(t, Head(f))>> ELSE <<>>)
         \o ValidValues(t, Tail(f))

RECURSIVE Flatten(_)
Flatten(ss) == IF ss = <<>> THEN <<>> ELSE Head(ss) \o Flatten(Tail(ss))

\* The normalized tokens processed so far, in order.
WordsScanned ==
    LET all  == Flatten([i \in 1..line_no |-> Split(Strip(file[i]))])
        done == SubSeq(all, 1, Len(all) - Len(tokens))
    IN  [i \in DOMAIN done |-> Normalized(done[i])]

\* The next record of the scan is one that fails validation.
NextRecordInvalid ==
    /\ pc = "scan"
    /\ IF tool = "words"
       THEN IF tokens # <<>>
            THEN Normalized(Head(tokens)) = <<>>
            ELSE Strip(file[line_no + 1]) = <<>>
       ELSE ~ValidLine(tool, file[line_no + 1])

\* C5: a recoverable record-level error leaves the accumulated valid data
\* unchanged, adds exactly one to the invalid counter, and the scan goes on
\* to the next line or token; so the valid data are at all times exactly
\* the valid records of the input consumed so far, in their order.
C5_RecoverableErrors ==
    /\ [](/\ tool \in {"stats", "convert"} =>
                numbers = ValidValues(tool, SubSeq(file, 1, line_no))
          /\ tool = "words" =>
                /\ total_words =
                     Cardinality({i \in DOMAIN WordsScanned :
                                     WordsScanned[i] # <<>>})
                /\ \A k \in DOMAIN freq :
                     freq[k].count =
                        Cardinality({i \in DOMAIN WordsScanned :
                                        WordsScanned[i] = freq[k].word}))
    /\ [][NextRecordInvalid =>
             /\ numbers' = numbers
             /\ freq' = freq
             /\ total_words' = total_words
             /\ invalid_count' + invalid_items'
                    = invalid_count + invalid_items + 1
             /\ pc' \in {"scan", "scanned"} /\ exit_code' = -1
             /\ \/ line_no' = line_no + 1 /\ tokens' = tokens
                \/ line_no' = line_no /\ tokens' = Tail(tokens)]_vars

C5_Witness ==
    /\ tool = "convert" /\ pc = "exit" /\ exit_code = 0
    /\ file = << <<"1", "2", "\n">>, <<"1", ".", "5", "\n">>,
                 <<"+", "7", "\n">> >>
    /\ numbers = <<12, 7>> /\ invalid_count = 1

\* C6: in statistics mode the aggregators are called only on a non-empty
\* list; a run in which no line is valid calls none of them, prints the "no
\* valid data" report, writes it to the results file and exits with status 0.
C6_NoDataSkipsAggregation ==
    tool = "stats" =>
        /\ (agg_calls # <<>> \/ stats # <<>>) => numbers # <<>>
        /\ (pc = "exit" /\ ~Fatal /\ numbers = <<>>) =>
              /\ agg_calls = <<>> /\ stats = <<>>
              /\ exit_code = 0
              /\ invalid_count = Len(file)
              /\ results_file.exists
              /\ \E i \in DOMAIN results_file.text :
                    results_file.text[i] = <<"No valid data to process.">>
              /\ console[Len(console)] = results_file.text

C6_Witness ==
    /\ tool = "stats" /\ pc = "exit" /\ exit_code = 0 /\ Len(file) = 2
    /\ numbers = <<>> /\ invalid_count = 2 /\ open_count = 1

WordChars ==
    {"'"} \cup {Chr(c) : c \in 48..57} \cup {Chr(c) : c \in 97..122}

\* C10: in word count mode, after every token, every key of the frequency
\* table is a non-empty normalized word, every count is a positive integer,
\* and the counts sum to total_words.
C10_FrequencyTable ==
    tool = "words" =>
        /\ \A k \in DOMAIN freq :
              /\ freq[k].word # <<>>
              /\ Elems(freq[k].word) \subseteq WordChars
              /\ freq[k].count >= 1
              /\ \A j \in DOMAIN freq : freq[j].word = freq[k].word => j = k
        /\ SumSeq([k \in DOMAIN freq |-> freq[k].count]) = total_words

C10_Witness ==
    /\ tool = "words" /\ pc = "exit"
    /\ freq = <<[word |-> <<"h", "i">>, count |-> 2]>>
    /\ total_words = 2 /\ invalid_items = 2

=============================================================================
